---- MODULE Spec2Model ----
(***************************************************************************)
(* Model of HeartbeatBraceletApp (heartbeat - simulator/static/js/app.js): *)
(* the generateBracelet run with its two fetch round trips, the            *)
(* visualizeBracelet sanitation pass and geometry construction, the        *)
(* download handlers, the slider and emotion listeners and the waveform    *)
(* drawn by generateHeartbeatPreview.                                      *)
(*   Spec        runs and downloads, every response shape                  *)
(*   LiveSpec    runs and downloads when every fetch settles               *)
(*   CtlSpec     runs while the sliders and the emotion selector are used  *)
(*   VizSpec     visualizeBracelet called directly                         *)
(*   PreviewSpec generateHeartbeatPreview under slider and emotion input   *)
(***************************************************************************)
EXTENDS Integers, Sequences, FiniteSets, TLC

(* ------------------------------ bounds --------------------------------- *)
\* longest vertex / face sequence passed to visualizeBracelet directly
MaxLen == 3
\* largest face index passed to visualizeBracelet directly
MaxIndex == 1
\* number of visualizeBracelet calls on one braceletData object
MaxCalls == 2

(* --------------------------- JavaScript values ------------------------- *)
\* A JS number is [k, m, e]: k = "num" is the finite double m * 10^e,
\* k = "inf" is +Infinity (m = 1) or -Infinity (m = -1), k = "nan" is NaN.
\* k = "null" is the JSON token null (only on the wire).
Num(n) == [k |-> "num", m |-> n, e |-> 0]
Big == [k |-> "num", m |-> 1, e |-> 39]
NaN == [k |-> "nan", m |-> 0, e |-> 0]
PosInf == [k |-> "inf", m |-> 1, e |-> 0]
NegInf == [k |-> "inf", m |-> -1, e |-> 0]
JsonNull == [k |-> "null", m |-> 0, e |-> 0]

\* an optional property of a parsed object: absent (undefined) or an array
Absent == [has |-> FALSE, a |-> <<>>]
Some(s) == [has |-> TRUE, a |-> s]

SeqsUpTo(S, n) == UNION {[1..l -> S] : l \in 0..n}

\* global isNaN(x) and isFinite(x) on numbers
IsNaN(v) == v.k = "nan"

IsFinite(v) == v.k = "num"

\* largest finite binary32 is 3.4028235e38: its decimal exponent and the
\* largest leading digit that still rounds to a finite binary32
F32MaxExp10 == 38
F32MaxLead == 3

Abs(n) == IF n < 0 THEN 0 - n ELSE n
Sign(n) == IF n < 0 THEN -1 ELSE 1

\* the element conversion of new Float32Array(array): round to binary32,
\* magnitudes beyond the binary32 range become +-Infinity. Defined on the
\* numbers of the model: small integers (exact in binary32) and m * 10^e
\* with one-digit m.
ToFloat32(v) ==
    IF v.k # "num" \/ v.m = 0 THEN v
    ELSE IF v.e > F32MaxExp10 \/ (v.e = F32MaxExp10 /\ Abs(v.m) > F32MaxLead)
         THEN [k |-> "inf", m |-> Sign(v.m), e |-> 0]
         ELSE v

Float32Array(s) == [i \in 1..Len(s) |-> ToFloat32(s[i])]

\* the element conversion of new Uint32Array(array): ToUint32. NaN and the
\* infinities give 0; a double of magnitude 10^39 is a multiple of 2^32 and
\* gives 0; a small non-negative integer (the indices used here) is kept.
ToUint32(v) ==
    IF v.k # "num" THEN 0
    ELSE IF v.e > 0 THEN 0
    ELSE v.m

Uint32Array(s) == [i \in 1..Len(s) |-> ToUint32(s[i])]

(* ------------------- visualizeBracelet: sanitation pass ---------------- *)
\* lines 335-347: the counting loop
NanCount(vertices) == Cardinality({i \in 1..Len(vertices) : IsNaN(vertices[i])})

InfCountMut(vertices) ==
    Cardinality({i \in 1..Len(vertices) : ~IsFinite(vertices[i])})
InfCount(vertices) ==
    Cardinality({i \in 1..Len(vertices) :
                    ~IsNaN(vertices[i]) /\ ~IsFinite(vertices[i])})

\* lines 349-362: the repair loop, run only when something was counted;
\* rewrites is the number of assignments vertices[i] = 0 it makes
CleanVerticesDrop(vertices) ==
    IF NanCount(vertices) > 0 \/ InfCount(vertices) > 0
    THEN [vertices |-> SelectSeq(vertices, IsFinite),
          rewrites |-> Cardinality({i \in 1..Len(vertices) :
                           IsNaN(vertices[i]) \/ ~IsFinite(vertices[i])})]
    ELSE [vertices |-> vertices, rewrites |-> 0]
CleanVerticesMut(vertices) ==
    IF NanCount(vertices) > 0 \/ InfCount(vertices) > 0
    THEN [vertices |-> [i \in 1..Len(vertices) |->
                           IF IsNaN(vertices[i]) \/ IsFinite(vertices[i])
                           THEN Num(0) ELSE vertices[i]],
          rewrites |-> Cardinality({i \in 1..Len(vertices) :
                           IsNaN(vertices[i]) \/ IsFinite(vertices[i])})]
    ELSE [vertices |-> vertices, rewrites |-> 0]
CleanVertices(vertices) ==
    IF NanCount(vertices) > 0 \/ InfCount(vertices) > 0
    THEN [vertices |-> [i \in 1..Len(vertices) |->
                           IF IsNaN(vertices[i]) \/ ~IsFinite(vertices[i])
                           THEN Num(0) ELSE vertices[i]],
          rewrites |-> Cardinality({i \in 1..Len(vertices) :
                           IsNaN(vertices[i]) \/ ~IsFinite(vertices[i])})]
    ELSE [vertices |-> vertices, rewrites |-> 0]

(* ------------------------------- state --------------------------------- *)
VARIABLES
    scene,          \* ids of the bracelet meshes contained in this.scene
    braceletMesh,   \* this.braceletMesh: 0 for null, else a mesh id
    meshGeom,       \* geometry of every mesh still referenced
    meshCount,      \* number of THREE.Mesh objects created so far
    sanLog,         \* console report of the last visualizeBracelet call's
                    \* sanitation pass (done is FALSE when it ran none)
    md,             \* the braceletData object visualizeBracelet is called on
    mdIn,           \* md as it was before the last call
    calls,          \* number of direct visualizeBracelet calls made
    pc,             \* where generateBracelet is suspended: idle when no run
    runs,           \* number of generateBracelet runs started
    btnDisabled,    \* generate-btn.disabled
    btnText,        \* generate-btn.textContent
    loading,        \* loading.style.display is block
    infoPanel,      \* info-panel.style.display is block
    downloadSection,        \* download-section.style.display is block
    currentHeartbeatData,   \* this.currentHeartbeatData
    currentSTLFile,         \* this.currentSTLFile
    vertexCountText,        \* vertex-count.textContent
    faceCountText,          \* face-count.textContent
    requests,       \* the fetch calls of the current run, in order
    hbResp,         \* how the /generate_heartbeat fetch of the run settled
    brResp,         \* how the /generate_3d_bracelet fetch of the run settled
    errorAlerts,    \* 'Error generating bracelet' alerts shown in the run
    promise,        \* state of the promise generateBracelet returned
    pre,            \* scene, stored file and stored data when the run began
    returnedIds,    \* stl_file of every success:true bracelet response
    lastDownload,   \* what the last download click did
    inFlight,       \* number of generateBracelet invocations not yet returned
    meshRun,        \* the run that built the mesh braceletMesh refers to
    stlRun,         \* the run that stored currentSTLFile
    lastSuccess,    \* the last run that reached the end of its try block
    controls,       \* value of every slider and of the emotion selector
    displays,       \* the <id>-value text beside every slider
    canvasWidth,    \* heartbeat-canvas.width
    preview,        \* the waveform the last generateHeartbeatPreview drew
    prevPreview     \* the waveform drawn before it, when it was drawn with
                    \* the same parameters (drawn is FALSE otherwise)

vizVars == <<scene, braceletMesh, meshGeom, meshCount, sanLog>>
callVars == <<md, mdIn, calls>>
uiVars == <<btnDisabled, btnText, loading, infoPanel, downloadSection,
            vertexCountText, faceCountText>>
runVars == <<pc, runs, requests, hbResp, brResp, errorAlerts, promise, pre>>
storeVars == <<currentHeartbeatData, currentSTLFile, returnedIds>>
dlVars == <<lastDownload>>
ctlVars == <<controls, displays, canvasWidth, preview, prevPreview>>
originVars == <<inFlight, meshRun, stlRun, lastSuccess>>
vars == <<vizVars, callVars, uiVars, runVars, storeVars, dlVars, ctlVars,
          originVars>>

\* model_data: undefined (def = FALSE) or an object with optional arrays
NoData == [def |-> FALSE, vertices |-> Absent, faces |-> Absent,
           normals |-> Absent, colors |-> Absent]
Data(v, f, n, c) == [def |-> TRUE, vertices |-> v, faces |-> f,
                     normals |-> n, colors |-> c]

NoLog == [done |-> FALSE, nanCount |-> 0, infCount |-> 0, rewrites |-> 0]

(* --------------------------- visualizeBracelet ------------------------- *)
\* lines 364-392: the BufferGeometry built from the (sanitized) data
Geometry(vertices, bd) ==
    [position |-> Float32Array(vertices),
     index |-> Uint32Array(bd.faces.a),
     normal |-> IF bd.normals.has
                THEN [src |-> "data", a |-> Float32Array(bd.normals.a)]
                ELSE [src |-> "computed", a |-> <<>>],
     color |-> IF bd.colors.has THEN Some(Float32Array(bd.colors.a)) ELSE Absent]

\* lines 315-319: remove the existing bracelet from the scene
RemoveExisting(sc, bm) == IF bm # 0 THEN sc \ {bm} ELSE sc

\* lines 321-325: the data is usable
ValidData(bd) == bd.def /\ bd.vertices.has /\ bd.faces.has

\* lines 306-428. The result: threw (a TypeError at line 309 when the data is
\* undefined), the data object after the in-place repair, the scene, the
\* mesh handle, the geometries and the console report.
VisualizeBracelet(bd, sc, bm, mg, mc) ==
    IF ~bd.def
    THEN [threw |-> TRUE, bd |-> bd, scene |-> sc, braceletMesh |-> bm,
          meshGeom |-> mg, meshCount |-> mc, log |-> NoLog]
    ELSE IF ~ValidData(bd)
    THEN [threw |-> FALSE, bd |-> bd, scene |-> RemoveExisting(sc, bm),
          braceletMesh |-> bm,
          meshGeom |-> [i \in (RemoveExisting(sc, bm) \cup ({bm} \ {0})) |-> mg[i]],
          meshCount |-> mc, log |-> NoLog]
    ELSE LET vertices == bd.vertices.a
             clean == CleanVertices(vertices)
             new == mc + 1
             sc1 == RemoveExisting(sc, bm)
             sc2 == sc1 \cup {new}
         IN [threw |-> FALSE,
             bd |-> [bd EXCEPT !.vertices = Some(clean.vertices)],
             scene |-> sc2,
             braceletMesh |-> new,
             meshGeom |-> [i \in sc2 |-> IF i = new
                                         THEN Geometry(clean.vertices, bd)
                                         ELSE mg[i]],
             meshCount |-> new,
             log |-> [done |-> TRUE, nanCount |-> NanCount(vertices),
                      infCount |-> InfCount(vertices),
                      rewrites |-> clean.rewrites]]

(* ----------------------- generateHeartbeatPreview ---------------------- *)
\* Amplitudes are kept exactly, in millionths; slider values stress-level and
\* activity-level in tenths; Math.random() in thousandths. The canvas widths
\* used divide 6, which puts every sine argument on a multiple of pi/36.

\* line 153
TimeSpan == 3

\* Math.sin(k * pi / 36) in thousandths, k in 0..18
SinTable36 == <<0, 87, 174, 259, 342, 423, 500, 574, 643, 707, 766, 819, 866,
                906, 940, 966, 985, 996, 1000>>
\* Math.sin(k * pi / 36) for any integer k in -72..72, by the symmetries of sin
SinPi36(k) ==
    LET a == IF k < 0 THEN 0 - k ELSE k
        b == IF a > 36 THEN a - 36 ELSE a
        c == IF b > 18 THEN 36 - b ELSE b
        v == SinTable36[c + 1]
    IN IF (k < 0) # (a > 36) THEN 0 - v ELSE v
\* Math.sin((n / d) * Math.PI)
SinPi(n, d) == SinPi36((36 * n) \div d)

\* lines 152, 157-158: beatPhase = ((i / width) * timeSpan * heartRate / 60) % 1
\* as the fraction num / den
BeatPhase(i, heartRate, width) ==
    [num |-> (i * TimeSpan * heartRate) % (60 * width), den |-> 60 * width]

\* line 163: beatPhase < 0.1
InQRS(ph) == 10 * ph.num < ph.den

\* line 168: beatPhase > 0.3 && beatPhase < 0.6
InTWaveMut(ph) == 10 * ph.num < 6 * ph.den
InTWave(ph) == 10 * ph.num > 3 * ph.den /\ 10 * ph.num < 6 * ph.den

\* lines 160-171: the amplitude before noise
BaseAmplitudeMut(ph, activityLevel) ==
    IF InQRS(ph)
    THEN SinPi(10 * ph.num, ph.den) * (800 + activityLevel * 400)
    ELSE IF InTWave(ph)
    THEN SinPi(10 * ph.num - 3 * ph.den, 3 * ph.den) * 300
    ELSE 0
BaseAmplitude(ph, activityLevel) ==
    IF InQRS(ph)
    THEN SinPi(10 * ph.num, ph.den) * (800 + activityLevel * 40)
    ELSE IF InTWave(ph)
    THEN SinPi(10 * ph.num - 3 * ph.den, 3 * ph.den) * 300
    ELSE 0

\* line 174: (Math.random() - 0.5) * stressLevel * 0.2
NoiseMut(random, stressLevel) == (random - 500) * 200
Noise(random, stressLevel) == (random - 500) * stressLevel * 20

\* the values of Math.random() tried: the least and nearly the greatest
RandomVals == {0, 999}

\* lines 131-186: the samples drawn for one choice of the random numbers
NoPreview == [drawn |-> FALSE, heartRate |-> 0, stressLevel |-> 0,
              activityLevel |-> 0, width |-> 0, samples |-> <<>>]
HeartbeatPreview(ctl, width, random) ==
    [drawn |-> TRUE,
     heartRate |-> ctl["heart-rate"],
     stressLevel |-> ctl["stress-level"],
     activityLevel |-> ctl["activity-level"],
     width |-> width,
     samples |-> [n \in 1..width |->
        LET ph == BeatPhase(n - 1, ctl["heart-rate"], width)
            base == BaseAmplitude(ph, ctl["activity-level"])
        IN [phase |-> ph, qrs |-> InQRS(ph), twave |-> ~InQRS(ph) /\ InTWave(ph),
            base |-> base,
            amplitude |-> base + Noise(random[n], ctl["stress-level"])]]]

SameParameters(a, b) ==
    /\ a.drawn /\ b.drawn
    /\ a.heartRate = b.heartRate
    /\ a.stressLevel = b.stressLevel
    /\ a.activityLevel = b.activityLevel
    /\ a.width = b.width

\* generateHeartbeatPreview() with the controls as they will be
GenerateHeartbeatPreview(ctl) ==
    \E random \in [1..canvasWidth -> RandomVals] :
        LET new == HeartbeatPreview(ctl, canvasWidth, random)
        IN /\ preview' = new
           /\ prevPreview' = IF SameParameters(preview, new) THEN preview
                             ELSE NoPreview

\* lines 116-129
Sliders == {"heart-rate", "stress-level", "activity-level", "duration", "radius",
            "thickness", "height-variation", "pattern-intensity", "smoothness"}
UpdateParameterDisplays(ctl) == [p \in Sliders |-> ctl[p]]

\* lines 88-94: the input event of a slider
SliderInput(param, value) ==
    /\ value # controls[param]
    /\ controls' = [controls EXCEPT ![param] = value]
    /\ displays' = UpdateParameterDisplays(controls')
    /\ GenerateHeartbeatPreview(controls')
    /\ UNCHANGED <<vizVars, callVars, uiVars, runVars, storeVars, dlVars,
                   originVars, canvasWidth>>

\* lines 96-99: the change event of the emotion selector
EmotionChange(value) ==
    /\ value # controls["emotion"]
    /\ controls' = [controls EXCEPT !["emotion"] = value]
    /\ GenerateHeartbeatPreview(controls')
    /\ UNCHANGED <<vizVars, callVars, uiVars, runVars, storeVars, dlVars,
                   originVars, canvasWidth, displays>>

\* the page's initial control values
DefaultControls ==
    [p \in Sliders \cup {"emotion"} |->
        IF p = "heart-rate" THEN 72
        ELSE IF p = "stress-level" THEN 0
        ELSE IF p = "activity-level" THEN 5
        ELSE IF p = "emotion" THEN 0
        ELSE 1]

\* lines 11-13: init() draws the first preview, then the displays are filled
Constructed(ctl, width) ==
    /\ controls = ctl
    /\ displays = UpdateParameterDisplays(ctl)
    /\ canvasWidth = width
    /\ preview \in {HeartbeatPreview(ctl, width, random) :
                       random \in [1..width -> RandomVals]}
    /\ prevPreview = NoPreview

(* ------------------------- scalars and envelopes ----------------------- *)
JSNull == [t |-> "null", s |-> ""]
JSUndef == [t |-> "undefined", s |-> ""]
JSStr(x) == [t |-> "string", s |-> x]

\* truthiness of a stored file reference: if (this.currentSTLFile)
TruthyMut(v) == v.t # "null"
Truthy(v) == v.t = "string" /\ v.s # ""

\* this.currentHeartbeatData: null, undefined or an array
HBNull == [t |-> "null", a |-> <<>>]
HBUndef == [t |-> "undefined", a |-> <<>>]
HBArray(s) == [t |-> "array", a |-> s]

\* JSON.stringify of an array element: a non-finite number is written null
JSONStringifyValue(v) == IF v.k = "num" THEN v ELSE JsonNull
JSONStringify(s) == [i \in 1..Len(s) |-> JSONStringifyValue(s[i])]

\* how a fetch + response.json() settles: the fetch rejects, the body is not
\* JSON, or the parsed envelope
NoResp == [kind |-> "none", success |-> FALSE, heartbeat_data |-> Absent,
           model_data |-> NoData, stl_file |-> JSUndef]
Rejected == [NoResp EXCEPT !.kind = "reject"]
NotJson == [NoResp EXCEPT !.kind = "notjson"]
Envelope(ok, hb, m, f) == [kind |-> "json", success |-> ok, heartbeat_data |-> hb,
                           model_data |-> m, stl_file |-> f]

\* the sequences a /generate_heartbeat response carries here (1e999 parses to
\* Infinity)
HeartbeatSeqs == {<<Num(1)>>, <<Num(1), PosInf>>}
HeartbeatOutcomes ==
    {Rejected, NotJson, Envelope(FALSE, Absent, NoData, JSUndef),
     Envelope(TRUE, Absent, NoData, JSUndef)} \cup
    {Envelope(TRUE, Some(h), NoData, JSUndef) : h \in HeartbeatSeqs}

\* the model_data a /generate_3d_bracelet response carries here
RespVertices == {Absent, Some(<<Num(1), Num(1), Num(1)>>), Some(<<Num(1), PosInf>>)}
RespFaces == {Absent, Some(<<Num(0), Num(0), Num(0)>>), Some(<<Num(1), Num(1)>>)}
RespModelData ==
    {NoData} \cup {Data(v, f, Absent, Absent) :
                      v \in RespVertices, f \in RespFaces}
StlFiles == {JSUndef, JSStr("a.stl"), JSStr("b.stl")}
BraceletOutcomes ==
    {Rejected, NotJson, Envelope(FALSE, Absent, NoData, JSUndef)} \cup
    {Envelope(TRUE, Absent, m, f) : m \in RespModelData, f \in StlFiles}

(* --------------------------- generateBracelet -------------------------- *)
\* number of generateBracelet runs
MaxRuns == 2

NoCount == [set |-> FALSE, thirds |-> 0]
\* textContent = array.length / 3, kept as the number of thirds
CountText(a) == [set |-> TRUE, thirds |-> Len(a)]

\* lines 242-250: catch shows one alert and swallows the error, finally
\* restores the button; the async function then returns normally
RunEndMut(threw) ==
    [alerts |-> 0, promise |-> IF threw THEN "rejected" ELSE "resolved"]
RunEnd(threw) ==
    [alerts |-> IF threw THEN 1 ELSE 0, promise |-> "resolved"]

FinishMut(threw) ==
    /\ errorAlerts' = errorAlerts + RunEnd(threw).alerts
    /\ promise' = RunEnd(threw).promise
    /\ btnDisabled' = threw
    /\ btnText' = "Generate 3D Bracelet"
    /\ loading' = FALSE
    /\ pc' = "idle"
    /\ inFlight' = inFlight - 1
Finish(threw) ==
    /\ errorAlerts' = errorAlerts + RunEnd(threw).alerts
    /\ promise' = RunEnd(threw).promise
    /\ btnDisabled' = FALSE
    /\ btnText' = "Generate 3D Bracelet"
    /\ loading' = FALSE
    /\ pc' = "idle"
    /\ inFlight' = inFlight - 1

\* lines 195-200: the button is disabled and the loading indicator shown, the
\* two panels are hidden
ShowLoadingMut ==
    /\ btnDisabled' = FALSE
    /\ btnText' = "Generating..."
    /\ loading' = TRUE
    /\ infoPanel' = FALSE
    /\ downloadSection' = FALSE
ShowLoading ==
    /\ btnDisabled' = TRUE
    /\ btnText' = "Generating..."
    /\ loading' = TRUE
    /\ infoPanel' = FALSE
    /\ downloadSection' = FALSE

\* lines 254-260: the parameters object of generateHeartbeatData
HeartbeatParameters(ctl) ==
    [heart_rate |-> ctl["heart-rate"],
     stress_level |-> ctl["stress-level"],
     activity_level |-> ctl["activity-level"],
     emotion |-> ctl["emotion"],
     duration |-> ctl["duration"]]

\* lines 280-287: the slider part of the parameters object of generate3DBracelet
BraceletParameters(ctl) ==
    [radius |-> ctl["radius"],
     thickness |-> ctl["thickness"],
     height_variation |-> ctl["height-variation"],
     pattern_intensity |-> ctl["pattern-intensity"],
     smoothness |-> ctl["smoothness"]]

\* lines 253-270: the first request, built from the controls as they are when
\* generateHeartbeatData is called
HeartbeatRequest ==
    [url |-> "/generate_heartbeat", heartbeat_data |-> Absent,
     parameters |-> HeartbeatParameters(controls)]

\* lines 101-104, 188-205 and 253-270: a click on the enabled button runs the
\* handler up to the first await (the first request carries the heartbeat
\* parameters and no heartbeat_data); a disabled button receives no click
ClickGenerate ==
    /\ ~btnDisabled
    /\ runs < MaxRuns
    /\ runs' = runs + 1
    /\ inFlight' = inFlight + 1
    /\ ShowLoading
    /\ requests' = <<HeartbeatRequest>>
    /\ pc' = "awaitHeartbeat"
    /\ hbResp' = NoResp
    /\ brResp' = NoResp
    /\ errorAlerts' = 0
    /\ promise' = "pending"
    /\ pre' = [scene |-> scene, stl |-> currentSTLFile, hb |-> currentHeartbeatData,
                controls |-> controls]
    /\ UNCHANGED <<vizVars, callVars, storeVars, dlVars, ctlVars,
                   meshRun, stlRun, lastSuccess, vertexCountText, faceCountText>>

\* lines 279-297: the body of the second request, built from the controls as
\* they are when generate3DBracelet is called
BraceletRequest(heartbeatData) ==
    [url |-> "/generate_3d_bracelet",
     heartbeat_data |-> Some(JSONStringify(heartbeatData)),
     parameters |-> BraceletParameters(controls)]

\* lines 205-217 and 271-297: the first fetch settles
HeartbeatSettles(o) ==
    /\ pc = "awaitHeartbeat"
    /\ hbResp' = o
    /\ IF o.kind # "json" \/ ~o.success
       THEN /\ Finish(TRUE)
            /\ UNCHANGED <<currentHeartbeatData, requests>>
       ELSE IF ~o.heartbeat_data.has
       THEN /\ currentHeartbeatData' = HBUndef
            /\ Finish(TRUE)
            /\ UNCHANGED requests
       ELSE /\ currentHeartbeatData' = HBArray(o.heartbeat_data.a)
            /\ requests' = Append(requests, BraceletRequest(o.heartbeat_data.a))
            /\ pc' = "awaitBracelet"
            /\ UNCHANGED <<errorAlerts, promise, btnDisabled, btnText, loading,
                           inFlight>>
    /\ UNCHANGED <<vizVars, callVars, dlVars, ctlVars, meshRun, stlRun,
                   lastSuccess, runs, brResp, pre,
                   currentSTLFile, returnedIds, infoPanel, downloadSection,
                   vertexCountText, faceCountText>>

\* lines 218-250 and 298-304: the second fetch settles
BraceletSettles(o) ==
    /\ pc = "awaitBracelet"
    /\ brResp' = o
    /\ returnedIds' = IF o.kind = "json" /\ o.success
                      THEN returnedIds \cup {o.stl_file} ELSE returnedIds
    /\ IF o.kind # "json" \/ ~o.success
       THEN /\ Finish(TRUE)
            /\ UNCHANGED <<vizVars, md, mdIn, currentSTLFile, infoPanel,
                           downloadSection, vertexCountText, faceCountText,
                           meshRun, stlRun, lastSuccess>>
       ELSE LET r == VisualizeBracelet(o.model_data, scene, braceletMesh,
                                       meshGeom, meshCount)
                modelData == r.bd
                thrown == r.threw \/ ~modelData.vertices.has \/ ~modelData.faces.has
            IN /\ scene' = r.scene
               /\ braceletMesh' = r.braceletMesh
               /\ meshGeom' = r.meshGeom
               /\ meshCount' = r.meshCount
               /\ sanLog' = r.log
               /\ md' = r.bd
               /\ mdIn' = o.model_data
               /\ vertexCountText' =
                     IF ~r.threw /\ modelData.vertices.has
                     THEN CountText(modelData.vertices.a) ELSE vertexCountText
               /\ faceCountText' =
                     IF ~thrown THEN CountText(modelData.faces.a) ELSE faceCountText
               /\ currentSTLFile' = IF ~thrown THEN o.stl_file ELSE currentSTLFile
               /\ meshRun' = IF r.braceletMesh # braceletMesh THEN runs ELSE meshRun
               /\ stlRun' = IF ~thrown THEN runs ELSE stlRun
               /\ lastSuccess' = IF ~thrown THEN runs ELSE lastSuccess
               /\ infoPanel' = IF ~thrown THEN TRUE ELSE infoPanel
               /\ downloadSection' = IF ~thrown THEN TRUE ELSE downloadSection
               /\ Finish(thrown)
    /\ UNCHANGED <<calls, dlVars, ctlVars, runs, requests, hbResp, pre,
                   currentHeartbeatData>>

\* lines 430-436: downloadSTL, reached from the button named
Download(button) ==
    /\ lastDownload' =
          IF Truthy(currentSTLFile)
          THEN [kind |-> "request", button |-> button, url |-> "/download_stl/",
                file |-> currentSTLFile]
          ELSE [kind |-> "alert", button |-> button, url |-> "",
                file |-> currentSTLFile]
    /\ UNCHANGED <<vizVars, callVars, uiVars, runVars, storeVars, ctlVars,
                   originVars>>

\* lines 107-109, 430-436: click on download-stl
DownloadSTL ==
    /\ Download("download-stl")

\* lines 111-113, 438-441: click on download-obj
DownloadOBJ ==
    /\ Download("download-obj")

\* lines 1-14: the state after construction; the two panels start as the
\* page's markup has them
AppStart ==
    /\ pc = "idle"
    /\ runs = 0
    /\ btnDisabled = FALSE
    /\ btnText = "Generate 3D Bracelet"
    /\ loading = FALSE
    /\ currentHeartbeatData = HBNull
    /\ currentSTLFile = JSNull
    /\ vertexCountText = NoCount
    /\ faceCountText = NoCount
    /\ requests = <<>>
    /\ hbResp = NoResp
    /\ brResp = NoResp
    /\ errorAlerts = 0
    /\ promise = "none"
    /\ pre = [scene |-> {}, stl |-> JSNull, hb |-> HBNull, controls |-> <<>>]
    /\ returnedIds = {}
    /\ inFlight = 0
    /\ meshRun = 0
    /\ stlRun = 0
    /\ lastSuccess = 0
    /\ lastDownload = [kind |-> "none", button |-> "", url |-> "", file |-> JSNull]

Init ==
    /\ AppStart
    /\ infoPanel \in BOOLEAN
    /\ downloadSection \in BOOLEAN
    /\ scene = {}
    /\ braceletMesh = 0
    /\ meshGeom = <<>>
    /\ meshCount = 0
    /\ sanLog = NoLog
    /\ md = NoData
    /\ mdIn = NoData
    /\ calls = 0
    /\ Constructed(DefaultControls, 1)

Next ==
    \/ ClickGenerate
    \/ \E o \in HeartbeatOutcomes : HeartbeatSettles(o)
    \/ \E o \in BraceletOutcomes : BraceletSettles(o)
    \/ DownloadSTL
    \/ DownloadOBJ

Spec == Init /\ [][Next]_vars

\* one response of each kind: the fetch rejects, the body is not JSON, the
\* envelope reports failure, or it reports success with a payload that is
\* missing, incomplete or complete
OneOfEachHeartbeat ==
    {Rejected, NotJson, Envelope(FALSE, Absent, NoData, JSUndef),
     Envelope(TRUE, Absent, NoData, JSUndef),
     Envelope(TRUE, Some(<<Num(1)>>), NoData, JSUndef)}
OneOfEachBracelet ==
    {Rejected, NotJson, Envelope(FALSE, Absent, NoData, JSUndef)} \cup
    {Envelope(TRUE, Absent, m, JSStr("a.stl")) :
        m \in {NoData,
               Data(Absent, Some(<<Num(0), Num(0), Num(0)>>), Absent, Absent),
               Data(Some(<<Num(1), Num(1), Num(1)>>),
                    Some(<<Num(0), Num(0), Num(0)>>), Absent, Absent)}}

\* the runs and downloads when every fetch that was issued eventually settles
\* (it resolves or rejects): the continuation after an await then runs
LiveNext ==
    \/ ClickGenerate
    \/ \E o \in OneOfEachHeartbeat : HeartbeatSettles(o)
    \/ \E o \in OneOfEachBracelet : BraceletSettles(o)
    \/ DownloadSTL
    \/ DownloadOBJ

LiveSpec ==
    /\ Init
    /\ [][LiveNext]_vars
    /\ WF_vars(\E o \in OneOfEachHeartbeat : HeartbeatSettles(o))
    /\ WF_vars(\E o \in OneOfEachBracelet : BraceletSettles(o))

\* the runs while the user moves sliders and changes the emotion: the first
\* and the last slider generate3DBracelet reads, one generateHeartbeatData
\* reads, and the selector
CtlSliders == {"radius", "smoothness", "duration"}
CtlValues == {1, 2}
Emotions == {0, 1}

CtlNext ==
    \/ ClickGenerate
    \/ \E o \in OneOfEachHeartbeat : HeartbeatSettles(o)
    \/ \E o \in OneOfEachBracelet : BraceletSettles(o)
    \/ \E param \in CtlSliders : \E value \in CtlValues : SliderInput(param, value)
    \/ \E value \in Emotions : EmotionChange(value)

CtlSpec == Init /\ [][CtlNext]_vars

(* ---------------- specification of visualizeBracelet alone ------------- *)
\* the numbers a caller can put in a vertex array
VertexVals == {Num(1), Big, NaN, PosInf, NegInf}
\* the numbers tried in a normal or color array
AttrVals == {Num(1), NaN}
\* face arrays: an index repeated
FaceSeqs == {[i \in 1..n |-> Num(f)] : n \in 0..MaxLen, f \in 0..MaxIndex}
OptAttr == {Absent} \cup {Some(<<v>>) : v \in AttrVals}

VizModelData ==
    {NoData} \cup
    {Data(v, f, n, c) :
        v \in {Absent} \cup {Some(s) : s \in SeqsUpTo(VertexVals, MaxLen)},
        f \in {Absent} \cup {Some(s) : s \in FaceSeqs},
        n \in OptAttr, c \in OptAttr}

VizInit ==
    /\ md \in VizModelData
    /\ mdIn = md
    /\ calls = 0
    /\ scene = {}
    /\ braceletMesh = 0
    /\ meshGeom = <<>>
    /\ meshCount = 0
    /\ sanLog = NoLog
    /\ AppStart
    /\ infoPanel = FALSE
    /\ downloadSection = FALSE
    /\ Constructed(DefaultControls, 1)

\* a caller invokes visualizeBracelet(md)
VizCall ==
    /\ calls < MaxCalls
    /\ LET r == VisualizeBracelet(md, scene, braceletMesh, meshGeom, meshCount)
       IN /\ md' = r.bd
          /\ scene' = r.scene
          /\ braceletMesh' = r.braceletMesh
          /\ meshGeom' = r.meshGeom
          /\ meshCount' = r.meshCount
          /\ sanLog' = r.log
    /\ mdIn' = md
    /\ calls' = calls + 1
    /\ UNCHANGED <<uiVars, runVars, storeVars, dlVars, ctlVars, originVars>>

VizNext == VizCall

VizSpec == VizInit /\ [][VizNext]_vars

(* ------------- specification of generateHeartbeatPreview --------------- *)
\* slider values tried: heart rates whose samples fall on the QRS complex, the
\* peak of the QRS complex, the T wave, the baseline and the boundaries 0.1,
\* 0.3 and 0.6, and the extreme 300; stress and activity 0, 0.5 and 1
HeartRates == {61, 63, 66, 72, 78, 300}
Tenths == {0, 5, 10}
PreviewWidths == {1, 3}
PreviewValues(param) ==
    IF param = "heart-rate" THEN HeartRates ELSE Tenths

PreviewInit ==
    /\ \E hr \in HeartRates, st \in Tenths, act \in Tenths, w \in PreviewWidths :
          Constructed([DefaultControls EXCEPT !["heart-rate"] = hr,
                          !["stress-level"] = st, !["activity-level"] = act], w)
    /\ AppStart
    /\ infoPanel = FALSE
    /\ downloadSection = FALSE
    /\ scene = {}
    /\ braceletMesh = 0
    /\ meshGeom = <<>>
    /\ meshCount = 0
    /\ sanLog = NoLog
    /\ md = NoData
    /\ mdIn = NoData
    /\ calls = 0

PreviewNext ==
    \/ \E param \in {"heart-rate", "stress-level", "activity-level"} :
          \E value \in PreviewValues(param) : SliderInput(param, value)
    \/ \E value \in Emotions : EmotionChange(value)

PreviewSpec == PreviewInit /\ [][PreviewNext]_vars

(* ------------------------------- claims -------------------------------- *)
\* the mesh the last visualizeBracelet call built
LastGeom == meshGeom[braceletMesh]
NonFinite(s) == {i \in 1..Len(s) : s[i].k # "num"}

\* C1: after a visualizeBracelet call on any vertex sequence, every element
\* of the position attribute handed to the geometry is finite, and every
\* element that was non-finite in the input is exactly 0.
C1_PositionAllFinite ==
    (calls > 0 /\ sanLog.done) =>
        /\ Len(LastGeom.position) = Len(mdIn.vertices.a)
        /\ \A i \in 1..Len(LastGeom.position) :
              /\ LastGeom.position[i].k = "num"
              /\ (i \in NonFinite(mdIn.vertices.a) => LastGeom.position[i] = Num(0))

\* C2: the normal and color attributes set on the geometry from model_data
\* contain only finite values.
C2_NormalColorAllFinite ==
    \A id \in scene :
        /\ (meshGeom[id].normal.src = "data" => NonFinite(meshGeom[id].normal.a) = {})
        /\ (meshGeom[id].color.has => NonFinite(meshGeom[id].color.a) = {})

\* C3: the reported nanCount + infCount equals the number of non-finite
\* elements of the input vertex sequence (NaNs in nanCount, infinities in
\* infCount, finite elements in neither), and it is 0 exactly when the pass
\* rewrites no element.
C3_RepairCountExact ==
    (calls > 0 /\ sanLog.done) =>
        LET in == mdIn.vertices.a
        IN /\ sanLog.nanCount = Cardinality({i \in 1..Len(in) : in[i].k = "nan"})
           /\ sanLog.infCount = Cardinality({i \in 1..Len(in) : in[i].k = "inf"})
           /\ sanLog.nanCount + sanLog.infCount = Cardinality(NonFinite(in))
           /\ (sanLog.nanCount + sanLog.infCount = 0 <=> sanLog.rewrites = 0)
           /\ (sanLog.nanCount + sanLog.infCount = 0 <=> md.vertices.a = in)

\* C3 witness: a pass over a sequence holding a NaN, an infinity and a finite
\* element has reported its counts.
C3_Witness ==
    /\ calls = 1
    /\ md.normals.has
    /\ sanLog.done
    /\ sanLog.nanCount = 1
    /\ sanLog.infCount = 1
    /\ Len(mdIn.vertices.a) = 3

\* C4: a sanitation pass over the output of an earlier pass leaves the vertex
\* sequence identical and reports 0 repairs; a pass over an all-finite
\* sequence changes nothing.
C4_SanitationIdempotent ==
    /\ (calls > 1 /\ sanLog.done) =>
          /\ md.vertices.a = mdIn.vertices.a
          /\ sanLog.nanCount + sanLog.infCount = 0
          /\ sanLog.rewrites = 0
    /\ (calls > 0 /\ sanLog.done /\ NonFinite(mdIn.vertices.a) = {}) =>
          /\ md.vertices.a = mdIn.vertices.a
          /\ sanLog.rewrites = 0

\* C4 witness: the second pass ran over a sequence the first pass repaired
\* (a 0 only enters a vertex sequence here by repair) beside a finite element.
C4_Witness ==
    /\ calls = 2
    /\ sanLog.done
    /\ \E i \in 1..Len(mdIn.vertices.a) : mdIn.vertices.a[i] = Num(0)
    /\ \E i \in 1..Len(mdIn.vertices.a) : mdIn.vertices.a[i] = Num(1)

\* the run's requests failed it: a fetch rejected, a body was not JSON, an
\* envelope had success false, heartbeat_data was missing, or model_data was
\* missing or lacked vertices or faces
HeartbeatFailed ==
    hbResp.kind # "json" \/ ~hbResp.success \/ ~hbResp.heartbeat_data.has
BraceletFailed ==
    brResp.kind # "json" \/ ~brResp.success \/ ~ValidData(brResp.model_data)
RunFailed == HeartbeatFailed \/ BraceletFailed
RunOver == promise \in {"resolved", "rejected"}

Is3D(r) == r.url = "/generate_3d_bracelet"

\* C5: the /generate_3d_bracelet request is issued only after the
\* /generate_heartbeat response of the run arrived with success true, its
\* heartbeat_data is exactly the sequence that response returned, and none is
\* issued when the heartbeat response has success false or the fetch rejects.
C5_SequentialRoundTrips ==
    /\ \A i \in 1..Len(requests) :
          Is3D(requests[i]) =>
             /\ i = 2
             /\ requests[1].url = "/generate_heartbeat"
             /\ hbResp.kind = "json"
             /\ hbResp.success
             /\ requests[i].heartbeat_data = hbResp.heartbeat_data
    /\ (hbResp.kind \in {"reject", "notjson"} \/ (hbResp.kind = "json" /\ ~hbResp.success))
          => \A i \in 1..Len(requests) : ~Is3D(requests[i])

\* C6: the promise generateBracelet returned never rejects; once it has
\* resolved, exactly one error alert was shown if the run failed and none if
\* it succeeded.
C6_NoErrorEscapes ==
    /\ promise # "rejected"
    /\ promise = "pending" => errorAlerts = 0
    /\ promise = "resolved" => errorAlerts = IF RunFailed THEN 1 ELSE 0

\* C6 witness: a run whose bracelet response had success true and no
\* model_data has resolved after one alert.
C6_Witness ==
    /\ promise = "resolved"
    /\ brResp.kind = "json"
    /\ brResp.success
    /\ ~brResp.model_data.def
    /\ errorAlerts = 1

\* C7: after a run that ended in failure the scene contains the same bracelet
\* mesh as before the run.
C7_FailedRunKeepsMesh ==
    (RunOver /\ RunFailed) => scene = pre.scene

\* C8: after a run that ended in failure currentSTLFile and
\* currentHeartbeatData equal their values before the run.
C8_FailedRunKeepsStored ==
    (RunOver /\ RunFailed) =>
        /\ currentSTLFile = pre.stl
        /\ currentHeartbeatData = pre.hb

\* C9: a download click issues GET /download_stl/{id} only with an id that an
\* earlier success:true /generate_3d_bracelet response returned as stl_file;
\* a click while no such id is stored issues no request and shows the alert.
C9_DownloadOnlyReturnedId ==
    /\ lastDownload.kind = "request" =>
          /\ lastDownload.file.t = "string"
          /\ lastDownload.file \in returnedIds
          /\ lastDownload.url = "/download_stl/"
    /\ (lastDownload.kind # "none"
          /\ ~(lastDownload.file.t = "string" /\ lastDownload.file \in returnedIds))
          => lastDownload.kind = "alert"

\* C9 witness: a click on download-obj issued the request for the stored id
\* b.stl.
C9_Witness ==
    /\ lastDownload.kind = "request"
    /\ lastDownload.file = JSStr("b.stl")
    /\ lastDownload.button = "download-obj"

\* C10: every mesh added to the scene has vertices.length and faces.length
\* divisible by 3 and every face index below the vertex count.
C10_MeshIndexInvariants ==
    \A id \in scene :
        LET g == meshGeom[id]
        IN /\ Len(g.position) % 3 = 0
           /\ Len(g.index) % 3 = 0
           /\ \A i \in 1..Len(g.index) : g.index[i] < Len(g.position) \div 3


\* the amplitudes of a drawn waveform, sample by sample
Amplitudes(pv) == [n \in 1..Len(pv.samples) |-> pv.samples[n].amplitude]

\* C11: with stress_level 0, two runs of generateHeartbeatPreview with the
\* same heart rate, activity level and canvas width draw identical amplitude
\* sequences, sample by sample, whatever Math.random() returned in each run.
C11_StressFreeDeterministic ==
    (prevPreview.drawn /\ preview.stressLevel = 0)
        => Amplitudes(preview) = Amplitudes(prevPreview)
C11_Witness ==
    /\ prevPreview.drawn
    /\ preview.stressLevel = 0
    /\ preview.width = 3
    /\ \E n \in 1..3 : preview.samples[n].amplitude > 0

\* beat phase in [0.1, 0.3] or in [0.6, 1)
OnBaseline(ph) ==
    \/ 10 * ph.num >= ph.den /\ 10 * ph.num <= 3 * ph.den
    \/ 10 * ph.num >= 6 * ph.den /\ ph.num < ph.den

\* C12: the cardiac cycle is partitioned by beat phase: no sample is in both
\* the QRS complex (phase < 0.1) and the T wave (0.3 < phase < 0.6), and every
\* sample whose phase is in [0.1, 0.3] or [0.6, 1) has amplitude exactly 0
\* before noise.
C12_PhasePartition ==
    \A n \in 1..Len(preview.samples) :
        LET smp == preview.samples[n]
        IN /\ ~(InQRS(smp.phase) /\ InTWave(smp.phase))
           /\ ~(smp.qrs /\ smp.twave)
           /\ OnBaseline(smp.phase) => smp.base = 0
C12_Witness ==
    /\ preview.width = 3
    /\ \E n \in 1..3 : 10 * preview.samples[n].phase.num = preview.samples[n].phase.den
    /\ \E n \in 1..3 : preview.samples[n].qrs
    /\ \E n \in 1..3 : 10 * preview.samples[n].phase.num = 2 * preview.samples[n].phase.den

\* C13: before noise every amplitude is at least 0 and at most
\* 0.8 + 0.4 * activity_level, hence at most 1.2, for every heart rate up to
\* 300; with noise the amplitude is within 0.1 * stress_level of that value.
C13_AmplitudeBounds ==
    \A n \in 1..Len(preview.samples) :
        LET smp == preview.samples[n]
        IN /\ smp.base >= 0
           /\ smp.base <= (800 + 40 * preview.activityLevel) * 1000
           /\ smp.base <= 1200000
           /\ Abs(smp.amplitude - smp.base) <= 10000 * preview.stressLevel
C13_Witness ==
    /\ preview.activityLevel = 10
    /\ preview.stressLevel = 10
    /\ \E n \in 1..Len(preview.samples) :
          /\ preview.samples[n].base = 1200000
          /\ Abs(preview.samples[n].amplitude - 1200000) = 100000

\* visualizeBracelet has run on the model_data of the current run's response
VisualizedThisRun ==
    /\ brResp.kind = "json"
    /\ brResp.success
    /\ mdIn = brResp.model_data
    /\ mdIn.def

\* C14: sanitation changes nothing but the non-finite vertex values: the
\* vertices array keeps its length, every element that was finite keeps its
\* value and position, faces (and normals and colors) are left as received,
\* and the vertex and face counts shown after a successful run are those of
\* the received model_data.
C14_SanitationFrame ==
    VisualizedThisRun =>
        /\ md.vertices.has = mdIn.vertices.has
        /\ Len(md.vertices.a) = Len(mdIn.vertices.a)
        /\ \A i \in 1..Len(mdIn.vertices.a) :
              IsFinite(mdIn.vertices.a[i]) => md.vertices.a[i] = mdIn.vertices.a[i]
        /\ md.faces = mdIn.faces
        /\ md.normals = mdIn.normals
        /\ md.colors = mdIn.colors
        /\ (RunOver /\ ~RunFailed) =>
              /\ vertexCountText = [set |-> TRUE, thirds |-> Len(mdIn.vertices.a)]
              /\ faceCountText = [set |-> TRUE, thirds |-> Len(mdIn.faces.a)]
C14_Witness ==
    /\ VisualizedThisRun
    /\ RunOver
    /\ ~RunFailed
    /\ \E i \in 1..Len(mdIn.vertices.a) : ~IsFinite(mdIn.vertices.a[i])
    /\ \E i \in 1..Len(mdIn.vertices.a) : IsFinite(mdIn.vertices.a[i])
    /\ md # mdIn

\* C18: after any sequence of visualizeBracelet calls the scene holds at most
\* one bracelet mesh, and whenever braceletMesh is non-null it is the mesh in
\* the scene, so that the render loop never rotates a removed mesh.
C18_HandleIsSceneMesh ==
    /\ Cardinality(scene) <= 1
    /\ braceletMesh # 0 => braceletMesh \in scene

\* C19: whenever a completed run has left the info panel and the download
\* section visible, that run succeeded, the mesh in the scene was built from
\* that run's model_data, and currentSTLFile is a defined identifier from that
\* run's response, so that a download click issues a request; after a failed
\* run both panels are hidden.
C19_VisiblePanelsDownloadable ==
    /\ (RunOver /\ infoPanel /\ downloadSection) =>
          /\ ~RunFailed
          /\ scene = {braceletMesh}
          /\ meshRun = runs
          /\ meshGeom[braceletMesh] = Geometry(md.vertices.a, md)
          /\ mdIn = brResp.model_data
          /\ currentSTLFile = brResp.stl_file
          /\ currentSTLFile.t = "string"
          /\ Truthy(currentSTLFile)
    /\ (RunOver /\ RunFailed) => (~infoPanel /\ ~downloadSection)

\* the user interface is idle
UiIdle ==
    /\ pc = "idle"
    /\ ~btnDisabled
    /\ btnText = "Generate 3D Bracelet"
    /\ ~loading

\* C15: every run eventually returns the user interface to idle, whatever its
\* outcome, provided every fetch it issued eventually settles; and at every
\* point between the click and that moment the button is disabled and the
\* loading indicator is shown.
C15_RunReturnsToIdle ==
    /\ [](pc # "idle" => (btnDisabled /\ loading /\ inFlight > 0))
    /\ (pc # "idle") ~> (UiIdle /\ RunOver)
C15_Witness ==
    /\ UiIdle
    /\ RunOver
    /\ runs = 2
    /\ RunFailed
    /\ errorAlerts = 1

\* C16: at most one generation is in flight: a click reaches the button only
\* while it is enabled, so no two runs overlap, and currentSTLFile and the
\* displayed mesh always come from the same run, the most recently started.
C16_LatestStartedRun ==
    /\ inFlight <= 1
    /\ scene # {} => (scene = {braceletMesh} /\ meshRun = runs)
    /\ currentSTLFile # JSNull => stlRun = runs

\* C16 (amended): at most one generation is in flight, no two runs overlap,
\* and currentSTLFile and the displayed mesh always come from the same run:
\* the most recent run that completed successfully (a later run that is
\* pending or failed leaves them from the earlier run, or removes the mesh).
C16_LatestSuccessfulRun ==
    /\ inFlight = (IF pc = "idle" THEN 0 ELSE 1)
    /\ btnDisabled <=> (inFlight > 0)
    /\ stlRun = lastSuccess
    /\ currentSTLFile # JSNull => stlRun > 0
    /\ scene # {} => (scene = {braceletMesh} /\ meshRun = lastSuccess)
    /\ lastSuccess <= runs
    /\ (inFlight > 0) => lastSuccess < runs
C16_Witness ==
    /\ runs = 2
    /\ pc = "awaitBracelet"
    /\ btnDisabled
    /\ scene # {}
    /\ meshRun = 1
    /\ stlRun = 1

\* C17: the parameters sent in the two requests of one run are one snapshot
\* taken at click time: slider and emotion changes made while
\* /generate_heartbeat is outstanding do not change the radius, thickness,
\* height_variation, pattern_intensity and smoothness sent to
\* /generate_3d_bracelet.
C17_SnapshotAtClick ==
    \A i \in 1..Len(requests) :
        /\ ~Is3D(requests[i]) =>
              requests[i].parameters = HeartbeatParameters(pre.controls)
        /\ Is3D(requests[i]) =>
              requests[i].parameters = BraceletParameters(pre.controls)
====
